---- MODULE Spec2Model ----
(***************************************************************************)
(* Account-pool keeper (script/account_keeper.py) and the registration     *)
(* script it runs as a subprocess (script/register_accounts.py), around    *)
(* the one shared store, accounts.json.                                    *)
(*                                                                         *)
(* Environment: the store file, the probe endpoint and process creation    *)
(* may fail as the actions state.  Printing and relaying log lines is      *)
(* taken to succeed.  The store holds a JSON list of objects, or is        *)
(* missing, or is not parseable.                                           *)
(***************************************************************************)
EXTENDS Integers, Sequences, FiniteSets, TLC

\* ---------------------------------------------------------------- bounds
MaxStore == 2        \* longest store file the initial states enumerate
MaxFloor == 2        \* largest configured MIN_ACCOUNTS the initial states enumerate

\* ---------------------------------------------------------------- data
NoId == "<none>"                       \* a record without an "id" key: .get('id') is None
Ids == {"a", "b", "unknown"}           \* mailbox addresses; "unknown" is a legal address string
Tokens == {"s1", "s2"}                 \* opaque session material
NoExpiry == <<>>                       \* expires_at: None
Blank == ""                            \* a cookie or URL part that is absent or empty

\* What save_config reads from the browser: two cookies (value, expiry), and
\* the csesidx and config_id parts of the current URL.  expiry 0: no expiry.
Driver(t, e) == [ses |-> t, host |-> t, csesidx |-> t, config_id |-> t, expiry |-> e]

\* save_config, lines 177-184: the record built once every part is present.
expires_at(expiry) == IF expiry # 0 THEN <<expiry - 43200>> ELSE NoExpiry

config_data(email, d) ==
    [id |-> email, csesidx |-> d.csesidx, config_id |-> d.config_id,
     secure_c_ses |-> d.ses, host_c_oses |-> d.host,
     expires_at |-> expires_at(d.expiry)]

CompleteDrivers == {Driver("s1", 50000), Driver("s2", 0)}

DriverStates ==
    CompleteDrivers
      \cup {[Driver("s1", 50000) EXCEPT !.ses = Blank],
            [Driver("s1", 50000) EXCEPT !.host = Blank],
            [Driver("s1", 50000) EXCEPT !.csesidx = Blank],
            [Driver("s1", 50000) EXCEPT !.config_id = Blank]}

Account(i, t) == config_data(i, IF t = "s1" THEN Driver("s1", 50000) ELSE Driver("s2", 0))

StoredAccounts == {Account(i, t) : i \in Ids \cup {NoId}, t \in Tokens}

RECURSIVE SeqsUpTo(_, _)
SeqsUpTo(S, n) ==
    IF n = 0 THEN {<<>>}
    ELSE LET shorter == SeqsUpTo(S, n - 1)
         IN  shorter \cup {Append(s, x) : s \in {q \in shorter : Len(q) = n - 1}, x \in S}

\* ---------------------------------------------------------------- the store file
\* The file is a token stream: "[", one token per object, "]".  A write that
\* stops early leaves a prefix of the stream.
OpenTok == [k |-> "[", v |-> Account(NoId, "s2")]
CloseTok == [k |-> "]", v |-> Account(NoId, "s2")]
ObjTok(a) == [k |-> "obj", v |-> a]

json_dump(accounts) ==
    <<OpenTok>> \o [i \in 1..Len(accounts) |-> ObjTok(accounts[i])] \o <<CloseTok>>

json_parses(text) ==
    /\ Len(text) >= 2
    /\ text[1] = OpenTok
    /\ text[Len(text)] = CloseTok
    /\ \A i \in 2..(Len(text) - 1) : text[i].k = "obj"

json_load(text) == [i \in 1..(Len(text) - 2) |-> text[i + 1].v]

MissingFile == [exists |-> FALSE, text |-> <<>>]
FileOf(text) == [exists |-> TRUE, text |-> text]

load_accounts_salvaging(f) ==
    IF f.exists
    THEN LET objs == SelectSeq(f.text, LAMBDA t : t.k = "obj")
         IN  [i \in 1..Len(objs) |-> objs[i].v]
    ELSE <<>>

load_accounts(f) ==
    IF f.exists /\ json_parses(f.text) THEN json_load(f.text) ELSE <<>>

\* save_accounts with the write ending after n tokens: n = -1 when makedirs or
\* open raises (the file is untouched), 0 <= n < length when the write raises
\* after open(..., 'w') has truncated the file, n = length when it completes.
save_accounts(f, accounts, n) ==
    IF n < 0 THEN f ELSE FileOf(SubSeq(json_dump(accounts), 1, n))

save_ok(accounts, n) == n = Len(json_dump(accounts))

WriteEnds(accounts) == (-1)..Len(json_dump(accounts))

\* ---------------------------------------------------------------- keeper helpers
ProbeOutcomes == {200, 401, 403, 500, 0}     \* 0: requests.get raised

check_account_only_200(outcome) == outcome = 200

check_account(outcome) ==
    IF outcome = 0 THEN TRUE
    ELSE IF outcome = 200 THEN TRUE
    ELSE IF outcome \in {401, 403} THEN FALSE
    ELSE TRUE

get_id(a) == a.id                                   \* a.get('id')
get_id_or_unknown(a) == IF a.id = NoId THEN "unknown" ELSE a.id   \* a.get('id', 'unknown')

delete_first_match(account_id, accounts) ==
    LET hits == {i \in 1..Len(accounts) : get_id(accounts[i]) = account_id}
    IN  IF hits = {} THEN accounts
        ELSE LET first == CHOOSE i \in hits : \A j \in hits : i <= j
             IN  SubSeq(accounts, 1, first - 1) \o SubSeq(accounts, first + 1, Len(accounts))

delete_account(account_id, accounts) ==
    SelectSeq(accounts, LAMBDA a : get_id(a) # account_id)

\* check_and_maintain, line 190.
below_or_at_floor(valid_count, floor) == valid_count <= floor
below_floor(valid_count, floor) == valid_count < floor

\* check_and_maintain, line 191.
need_one_more(valid_count, floor) == floor - valid_count + 1
need_count_of(valid_count, floor) == floor - valid_count

\* the ids of a store are present and pairwise distinct
UniqueIds(s) ==
    /\ \A i \in 1..Len(s) : s[i].id # NoId
    /\ \A i, j \in 1..Len(s) : i # j => s[i].id # s[j].id

RECURSIVE delete_all(_, _)
delete_all(ids, accounts) ==
    IF ids = <<>> THEN accounts
    ELSE delete_all(Tail(ids), delete_account(Head(ids), accounts))

\* ---------------------------------------------------------------- state
VARIABLES
    file,            \* accounts.json
    MIN_ACCOUNTS,    \* keeper configuration
    pc,              \* keeper position: loop, check, count, register, relay, sleep
    accounts,        \* check_and_maintain: accounts
    idx,             \* check_and_maintain: position of the for loop
    valid_accounts,  \* check_and_maintain: valid_accounts
    invalid_ids,     \* check_and_maintain: invalid_ids
    need_count,      \* check_and_maintain: need_count (0 until computed)
    child,           \* registration script: none, running, loop (in main's retry loop), exited
    TOTAL_ACCOUNTS,  \* registration subprocess configuration
    returncode,      \* registration subprocess exit status
    success,         \* registration subprocess: successes counted by main
    run,             \* record of the current run, for the properties
    op               \* record of the last direct call of a script function

vars == <<file, MIN_ACCOUNTS, pc, accounts, idx, valid_accounts, invalid_ids,
          need_count, child, TOTAL_ACCOUNTS, returncode, success, run, op>>

keeperLocals == <<accounts, idx, valid_accounts, invalid_ids, need_count>>
childVars == <<child, TOTAL_ACCOUNTS, returncode, success>>

NoRun ==
    [started |-> FALSE, fileAtStart |-> MissingFile, snapshot |-> <<>>,
     outcomes |-> <<>>, evictWrites |-> 0, evictFailed |-> FALSE,
     written |-> <<>>, registerCalls |-> 0, spawned |-> FALSE,
     fileAtRegister |-> MissingFile, error |-> FALSE]

NoOp == [kind |-> "none", email |-> NoId, complete |-> FALSE, saved |-> FALSE,
         data |-> Account(NoId, "s2"), before |-> MissingFile, ok |-> FALSE,
         counted |-> 0]

InitFiles ==
    {MissingFile, FileOf(<<>>), FileOf(<<OpenTok>>)}
      \cup {FileOf(json_dump(s)) : s \in SeqsUpTo(StoredAccounts, MaxStore)}

Init ==
    /\ file \in InitFiles
    /\ MIN_ACCOUNTS \in 1..MaxFloor
    /\ pc = "loop"
    /\ accounts = <<>>
    /\ idx = 1
    /\ valid_accounts = <<>>
    /\ invalid_ids = <<>>
    /\ need_count = 0
    /\ child = "none"
    /\ TOTAL_ACCOUNTS = 0
    /\ returncode = 0
    /\ success = 0
    /\ run = NoRun
    /\ op = NoOp

\* ---------------------------------------------------------------- keeper actions
\* main: what the while loop does after an exception left check_and_maintain.
main_without_except == "crashed"
main_on_exception == "sleep"

\* check_and_maintain, lines 159-168: load, reset the two lists.
StartRun ==
    /\ pc = "loop"
    /\ accounts' = load_accounts(file)
    /\ idx' = 1
    /\ valid_accounts' = <<>>
    /\ invalid_ids' = <<>>
    /\ need_count' = 0
    /\ run' = [NoRun EXCEPT !.started = TRUE, !.fileAtStart = file,
                            !.snapshot = load_accounts(file)]
    /\ pc' = "check"
    /\ UNCHANGED <<file, MIN_ACCOUNTS, childVars, op>>

\* one iteration of the for loop, lines 169-178.
Probe ==
    /\ pc = "check"
    /\ idx <= Len(accounts)
    /\ \E outcome \in ProbeOutcomes :
         /\ IF check_account(outcome)
            THEN /\ valid_accounts' = Append(valid_accounts, accounts[idx])
                 /\ UNCHANGED invalid_ids
            ELSE /\ invalid_ids' = Append(invalid_ids, get_id_or_unknown(accounts[idx]))
                 /\ UNCHANGED valid_accounts
         /\ run' = [run EXCEPT !.outcomes = Append(@, outcome)]
    /\ idx' = idx + 1
    /\ UNCHANGED <<file, MIN_ACCOUNTS, pc, accounts, need_count, childVars, op>>

\* lines 181-184 with nothing to delete.
EvictNone ==
    /\ pc = "check"
    /\ idx > Len(accounts)
    /\ invalid_ids = <<>>
    /\ pc' = "count"
    /\ UNCHANGED <<file, MIN_ACCOUNTS, keeperLocals, childVars, run, op>>

\* lines 181-184: delete every invalid id from accounts, then save_accounts.
EvictWrite ==
    /\ pc = "check"
    /\ idx > Len(accounts)
    /\ invalid_ids # <<>>
    /\ accounts' = delete_all(invalid_ids, accounts)
    /\ \E n \in WriteEnds(accounts') :
         /\ file' = save_accounts(file, accounts', n)
         /\ run' = [run EXCEPT !.evictWrites = @ + 1,
                               !.written = accounts',
                               !.evictFailed = ~save_ok(accounts', n),
                               !.error = ~save_ok(accounts', n)]
         /\ pc' = IF save_ok(accounts', n) THEN "count" ELSE main_on_exception
    /\ UNCHANGED <<MIN_ACCOUNTS, idx, valid_accounts, invalid_ids, need_count,
                   childVars, op>>

\* lines 186-195: the pool is large enough.
CountEnough ==
    /\ pc = "count"
    /\ ~below_floor(Len(valid_accounts), MIN_ACCOUNTS)
    /\ pc' = "sleep"
    /\ UNCHANGED <<file, MIN_ACCOUNTS, keeperLocals, childVars, run, op>>

\* lines 186-193: below the floor, call register_accounts(need_count).
CountShort ==
    /\ pc = "count"
    /\ below_floor(Len(valid_accounts), MIN_ACCOUNTS)
    /\ need_count' = need_count_of(Len(valid_accounts), MIN_ACCOUNTS)
    /\ pc' = "register"
    /\ UNCHANGED <<file, MIN_ACCOUNTS, accounts, idx, valid_accounts, invalid_ids,
                   childVars, run, op>>

\* register_accounts, lines 118-140: nothing to do for count <= 0, else
\* Popen starts the script with TOTAL_ACCOUNTS = count.
Spawn ==
    /\ pc = "register"
    /\ IF need_count <= 0
       THEN /\ pc' = "sleep"
            /\ run' = [run EXCEPT !.registerCalls = @ + 1, !.fileAtRegister = file]
            /\ UNCHANGED childVars
       ELSE /\ child' = "running"
            /\ TOTAL_ACCOUNTS' = need_count
            /\ returncode' = 0
            /\ success' = 0
            /\ run' = [run EXCEPT !.registerCalls = @ + 1, !.spawned = TRUE,
                                  !.fileAtRegister = file]
            /\ pc' = "relay"
    /\ UNCHANGED <<file, MIN_ACCOUNTS, keeperLocals, op>>

\* register_accounts, lines 132-140 raising: caught at 153, the call returns.
SpawnFail ==
    /\ pc = "register"
    /\ need_count > 0
    /\ run' = [run EXCEPT !.registerCalls = @ + 1, !.fileAtRegister = file]
    /\ pc' = "sleep"
    /\ UNCHANGED <<file, MIN_ACCOUNTS, keeperLocals, childVars, op>>

\* register_accounts, lines 143-151: the relay loop ends at the end of the
\* child's output and process.wait() returns once the child has exited.
ChildReturnsAtOnce(c) == TRUE
ChildFinished(c) == c = "exited"

RelayThenSave ==
    /\ pc = "relay"
    /\ ChildFinished(child)
    /\ file' = FileOf(json_dump(accounts))
    /\ pc' = "sleep"
    /\ UNCHANGED <<MIN_ACCOUNTS, keeperLocals, childVars, run, op>>

Relay ==
    /\ pc = "relay"
    /\ ChildFinished(child)
    /\ pc' = "sleep"
    /\ UNCHANGED <<file, MIN_ACCOUNTS, keeperLocals, childVars, run, op>>

\* main, lines 215-216: sleep, then the next iteration; the locals of the
\* call that returned are gone.
Sleep ==
    /\ pc = "sleep"
    /\ pc' = "loop"
    /\ accounts' = <<>>
    /\ idx' = 1
    /\ valid_accounts' = <<>>
    /\ invalid_ids' = <<>>
    /\ need_count' = 0
    /\ run' = NoRun
    /\ UNCHANGED <<file, MIN_ACCOUNTS, childVars, op>>

\* ---------------------------------------------------------------- the script as a subprocess
\* register_accounts.py main, lines 349-352: the fourth print evaluates the
\* name OUTPUT_DIR, which the module never binds: NameError, exit status 1,
\* before the driver is created and before the retry loop.
ScriptMain ==
    /\ child = "running"
    /\ child' = "exited"
    /\ returncode' = 1
    /\ UNCHANGED <<file, MIN_ACCOUNTS, pc, keeperLocals, TOTAL_ACCOUNTS, success, run, op>>

\* ---------------------------------------------------------------- the script's store functions
\* save_config, lines 217-221: the list that is written.
append_without_filter(email, data, stored) == Append(stored, data)
filter_by_config_id(email, data, stored) ==
    Append(SelectSeq(stored, LAMBDA a : a.config_id # data.config_id), data)
config_list(email, data, stored) ==
    Append(SelectSeq(stored, LAMBDA a : get_id(a) # email), data)

\* save_config, lines 172-175.
config_complete_without_config_id(d) ==
    d.ses # Blank /\ d.host # Blank /\ d.csesidx # Blank

config_complete(d) ==
    d.ses # Blank /\ d.host # Blank /\ d.csesidx # Blank /\ d.config_id # Blank

\* save_config(email, driver): returns None without touching the store when a
\* part is still missing after the wait, else rewrites the store.
SaveConfig ==
    /\ op.kind = "none"
    /\ \E email \in Ids, d \in DriverStates :
      IF ~config_complete(d)
      THEN /\ op' = [NoOp EXCEPT !.kind = "save_config", !.email = email,
                                 !.before = file]
           /\ UNCHANGED <<file, MIN_ACCOUNTS, pc, keeperLocals, childVars, run>>
      ELSE LET data == config_data(email, d)
               new == config_list(email, data, load_accounts(file))
           IN  \E n \in WriteEnds(new) :
                 /\ file' = save_accounts(file, new, n)
                 /\ op' = [NoOp EXCEPT !.kind = "save_config", !.email = email,
                                       !.complete = TRUE, !.saved = save_ok(new, n),
                                       !.data = data, !.before = file]
                 /\ UNCHANGED <<MIN_ACCOUNTS, pc, keeperLocals, childVars, run>>

\* delete_local_file(email), lines 227-238: a write only when a record goes;
\* an exception of the write is caught and logged.
DeleteLocalFile ==
    /\ op.kind = "none"
    /\ \E email \in Ids \cup {NoId} :
      LET stored == load_accounts(file)
          new == SelectSeq(stored, LAMBDA a : get_id(a) # email)
      IN  /\ IF email # NoId /\ Len(new) < Len(stored)
             THEN \E n \in WriteEnds(new) :
                    /\ file' = save_accounts(file, new, n)
                    /\ op' = [NoOp EXCEPT !.kind = "delete_local_file",
                                          !.email = email, !.before = file,
                                          !.saved = save_ok(new, n)]
             ELSE /\ UNCHANGED file
                  /\ op' = [NoOp EXCEPT !.kind = "delete_local_file",
                                        !.email = email, !.before = file]
          /\ UNCHANGED <<MIN_ACCOUNTS, pc, keeperLocals, childVars, run>>

\* ---------------------------------------------------------------- main's retry loop
\* delete_local_file(email) as a function of the store: m is where its
\* write ends; an exception of the write is swallowed at line 237.
removed_list(email, stored) == SelectSeq(stored, LAMBDA a : get_id(a) # email)

delete_local_file(f, email, m) ==
    IF email = NoId THEN f
    ELSE IF Len(removed_list(email, load_accounts(f))) < Len(load_accounts(f))
         THEN save_accounts(f, removed_list(email, load_accounts(f)), m)
         ELSE f

\* Where a write of the loop ends: open raises, the write raises with the
\* file just truncated, or it completes.
LoopWriteEnds(stored) == {-1, 0, Len(json_dump(stored))}

DeleteEnds(f, email) ==
    IF email = NoId \/ Len(removed_list(email, load_accounts(f))) = Len(load_accounts(f))
    THEN {0}                                    \* nothing is written
    ELSE LoopWriteEnds(removed_list(email, load_accounts(f)))

\* main, line 359: another attempt is due.
loop_continues(done, target) == done < target

\* main, lines 379 and 384-385: the counter after an attempt.
counted_after(done, ok) == IF ok THEN done + 1 ELSE done

\* main, lines 362-402, register returning (None, False, None): create_email
\* gave no address; delete_local_file(None) returns at once.
AttemptNoEmail ==
    /\ child = "loop"
    /\ loop_continues(success, TOTAL_ACCOUNTS)
    /\ success' = counted_after(success, FALSE)
    /\ op' = [NoOp EXCEPT !.kind = "attempt", !.before = file, !.counted = success]
    /\ UNCHANGED <<file, MIN_ACCOUNTS, pc, keeperLocals, child, TOTAL_ACCOUNTS,
                   returncode, run>>

\* main, lines 362-402, register failing with an address: it returns
\* (email, False, None) (login page, verification code, or save_config
\* returning None for an incomplete driver state) or raises (a wait timing
\* out); main calls delete_local_file(email) either way.
AttemptFails ==
    /\ child = "loop"
    /\ loop_continues(success, TOTAL_ACCOUNTS)
    /\ \E email \in Ids :
       \E m \in DeleteEnds(file, email) :
         /\ file' = delete_local_file(file, email, m)
         /\ op' = [NoOp EXCEPT !.kind = "attempt", !.email = email,
                               !.before = file, !.counted = success]
    /\ success' = counted_after(success, FALSE)
    /\ UNCHANGED <<MIN_ACCOUNTS, pc, keeperLocals, child, TOTAL_ACCOUNTS,
                   returncode, run>>

\* main, lines 362-402, register reaching save_config with every part
\* present: the store is rewritten; when the write completes the attempt
\* counts, when it raises main's except calls delete_local_file(email).
AttemptSaves ==
    /\ child = "loop"
    /\ loop_continues(success, TOTAL_ACCOUNTS)
    /\ \E email \in Ids, d \in CompleteDrivers :
         LET data == config_data(email, d)
             new == config_list(email, data, load_accounts(file))
         IN  \E n \in LoopWriteEnds(new) :
               LET written == save_accounts(file, new, n)
               IN  IF save_ok(new, n)
                   THEN /\ file' = written
                        /\ success' = counted_after(success, TRUE)
                        /\ op' = [NoOp EXCEPT !.kind = "attempt", !.email = email,
                                              !.complete = TRUE, !.saved = TRUE,
                                              !.ok = TRUE, !.data = data,
                                              !.before = file, !.counted = success]
                   ELSE \E m \in DeleteEnds(written, email) :
                          /\ file' = delete_local_file(written, email, m)
                          /\ success' = counted_after(success, FALSE)
                          /\ op' = [NoOp EXCEPT !.kind = "attempt", !.email = email,
                                                !.complete = TRUE, !.data = data,
                                                !.before = file, !.counted = success]
    /\ UNCHANGED <<MIN_ACCOUNTS, pc, keeperLocals, child, TOTAL_ACCOUNTS,
                   returncode, run>>

\* main, lines 413-420: the loop is over; the print of line 420 evaluates
\* OUTPUT_DIR again: NameError, exit status 1.
LoopEnds ==
    /\ child = "loop"
    /\ ~loop_continues(success, TOTAL_ACCOUNTS)
    /\ child' = "exited"
    /\ returncode' = 1
    /\ op' = [op EXCEPT !.kind = "ended"]
    /\ UNCHANGED <<file, MIN_ACCOUNTS, pc, keeperLocals, TOTAL_ACCOUNTS, success, run>>

NextMain ==
    \/ AttemptNoEmail
    \/ AttemptFails
    \/ AttemptSaves
    \/ LoopEnds

\* The retry loop on its own, from the state lines 355-357 leave, for a
\* target of 1..MaxFloor on any store; the keeper is not running.  (In the
\* script as written line 352 raises before the loop: ScriptMain.)
InitMain ==
    /\ file \in InitFiles
    /\ MIN_ACCOUNTS = 1
    /\ pc = "off"
    /\ accounts = <<>>
    /\ idx = 1
    /\ valid_accounts = <<>>
    /\ invalid_ids = <<>>
    /\ need_count = 0
    /\ child = "loop"
    /\ TOTAL_ACCOUNTS \in 1..MaxFloor
    /\ returncode = 0
    /\ success = 0
    /\ run = NoRun
    /\ op = NoOp

SpecMain == InitMain /\ [][NextMain]_vars

NextScript ==
    \/ SaveConfig
    \/ DeleteLocalFile

\* One call of a store function of the script, on any initial store.
SpecScript == Init /\ [][NextScript]_vars

Next ==
    \/ StartRun
    \/ Probe
    \/ EvictNone
    \/ EvictWrite
    \/ CountEnough
    \/ CountShort
    \/ Spawn
    \/ SpawnFail
    \/ Relay
    \/ Sleep
    \/ ScriptMain

Spec == Init /\ [][Next]_vars

\* Either program on a store whose ids are present and pairwise distinct
\* (or that is missing or unparseable): the keeper, or the retry loop.
InitUnique == (Init \/ InitMain) /\ UniqueIds(load_accounts(file))

SpecUnique == InitUnique /\ [][Next \/ NextMain]_vars

\* The keeper is one sequential loop and the child one sequential process:
\* each takes its next step whenever it has one.
FairSpec == Spec /\ WF_vars(Next)

\* ---------------------------------------------------------------- vocabulary of the properties
ProbeClass(outcome) ==
    IF outcome = 200 THEN "Alive"
    ELSE IF outcome \in {401, 403} THEN "Dead"
    ELSE "Unknown"

\* every account of the snapshot has been probed
Checked == run.started /\ Len(run.outcomes) = Len(run.snapshot)

\* check_and_maintain has returned without raising
RunReturned == pc = "sleep" /\ run.started /\ ~run.error

Dead(i) == ProbeClass(run.outcomes[i]) = "Dead"
NonDeadCount == Cardinality({i \in 1..Len(run.outcomes) : ~Dead(i)})
AllUnknown == \A i \in 1..Len(run.outcomes) : ProbeClass(run.outcomes[i]) = "Unknown"
NoneDead == \A i \in 1..Len(run.outcomes) : ~Dead(i)

Min(x, y) == IF x <= y THEN x ELSE y

Occurrences(s, id) == Cardinality({i \in 1..Len(s) : s[i].id = id})
Others(s, id) == SelectSeq(s, LAMBDA a : a.id # id)

\* ---------------------------------------------------------------- C1
\* C1: a Replenish(k) call that started the script returns with exactly k
\* new credentials in the store (every provisioning attempt succeeding).
C1_ExactTarget ==
    (pc = "sleep" /\ run.spawned) =>
        /\ file.exists /\ json_parses(file.text)
        /\ Len(load_accounts(file)) = Len(load_accounts(run.fileAtRegister)) + need_count

\* ---------------------------------------------------------------- C2
\* C2: a run on a store with unique ids whose non-Dead count is below the
\* floor, with the script started, ends with exactly floor credentials, ids unique.
C2_EndToEndRefill ==
    (RunReturned /\ run.spawned /\ UniqueIds(run.snapshot) /\ NonDeadCount < MIN_ACCOUNTS) =>
        /\ Len(load_accounts(file)) = MIN_ACCOUNTS
        /\ UniqueIds(load_accounts(file))

\* ---------------------------------------------------------------- C3
\* C3: after a complete run the store holds at least
\* min(floor, survivors + successes counted), for every initial store.
C3_FloorInvariant ==
    RunReturned => Len(load_accounts(file)) >= Min(MIN_ACCOUNTS, NonDeadCount + success)

\* ---------------------------------------------------------------- C4
\* C4: after a store write was interrupted, the store reads as the complete
\* previous set or the complete new set, never as a truncated file.
C4_AtomicPersistence ==
    run.evictWrites > 0 =>
        /\ file.exists /\ json_parses(file.text)
        /\ load_accounts(file) \in {run.snapshot, run.written}

\* ---------------------------------------------------------------- C5
\* C5: when every probe of the run is Unknown, nothing is evicted, every
\* credential counts as valid and the run writes nothing to the store.
C5_FailOpen ==
    (Checked /\ AllUnknown) =>
        /\ invalid_ids = <<>>
        /\ valid_accounts = run.snapshot
        /\ run.evictWrites = 0
        /\ ~run.evictFailed

C5_Witness ==
    /\ pc = "count" /\ Checked /\ AllUnknown
    /\ Len(run.snapshot) = 2
    /\ run.outcomes = <<500, 0>>

\* ---------------------------------------------------------------- C7
\* C7: with no Dead probe and at least floor credentials, the deficit is 0,
\* register_accounts is not called and the store is not written.
C7_SufficientPoolNoOp ==
    (Checked /\ NoneDead /\ Len(run.snapshot) >= MIN_ACCOUNTS) =>
        /\ pc \notin {"register", "relay"}
        /\ need_count = 0
        /\ run.registerCalls = 0
        /\ ~run.spawned
        /\ run.evictWrites = 0
        /\ file = run.fileAtStart

C7_Witness ==
    /\ RunReturned /\ Checked /\ NoneDead
    /\ Len(run.snapshot) = MIN_ACCOUNTS
    /\ MIN_ACCOUNTS >= 2

C9_RunIsolation ==
    /\ [](pc # "crashed")
    /\ []<>(pc = "check")

C9_Witness == pc = "sleep" /\ run.error /\ run.evictFailed

\* ---------------------------------------------------------------- C10
\* C10: a run whose eviction write failed does not call register_accounts
\* and leaves the store equal to the set loaded at the start of the run.
C10_PersistenceFailureAborts ==
    run.evictFailed =>
        /\ run.registerCalls = 0
        /\ file.exists /\ json_parses(file.text)
        /\ load_accounts(file) = run.snapshot

\* ---------------------------------------------------------------- C6
\* C6 as amended: save_config of a complete record leaves exactly one
\* record with that id, equal to the new record and last; the records with
\* other ids are unchanged and keep their order; the size grows by one for a
\* fresh id and is unchanged for an id that occurred once (n occurrences
\* shrink the store by n - 1).
C6_DedupOnAppend ==
    (op.kind = "save_config" /\ op.saved) =>
        LET before == load_accounts(op.before)
            after == load_accounts(file)
            n == Occurrences(before, op.email)
        IN  /\ Occurrences(after, op.email) = 1
            /\ after[Len(after)] = op.data
            /\ op.data.id = op.email
            /\ Others(after, op.email) = Others(before, op.email)
            /\ n = 0 => Len(after) = Len(before) + 1
            /\ n >= 1 => Len(after) = Len(before) - (n - 1)

\* C6 as stated: appending an id that exists does not change the store size.
C6_SizeUnchanged ==
    (op.kind = "save_config" /\ op.saved
        /\ Occurrences(load_accounts(op.before), op.email) >= 1) =>
        Len(load_accounts(file)) = Len(load_accounts(op.before))

C6_Witness ==
    /\ op.kind = "save_config" /\ op.saved
    /\ Occurrences(load_accounts(op.before), op.email) = 1
    /\ Len(load_accounts(op.before)) = 2
    /\ \E i \in 1..2 : /\ load_accounts(op.before)[i].id = op.email
                       /\ load_accounts(op.before)[i] # op.data

\* ---------------------------------------------------------------- C11
\* the store a run started from was missing or did not parse
Unreadable(f) == ~f.exists \/ ~json_parses(f.text)

\* the run is past the size comparison of line 189 with the pool short
PastCountShort == pc \in {"register", "relay"} \/ (pc = "sleep" /\ run.registerCalls > 0)

\* C11: a run that starts from a missing or unparseable store takes the empty
\* store as its snapshot: it probes nothing, evicts nothing and raises nothing
\* on the way, the deficit is the floor, and register_accounts is called with
\* the floor as its target.
C11_LoadNeverFails ==
    (run.started /\ Unreadable(run.fileAtStart)) =>
        /\ run.snapshot = <<>>
        /\ run.outcomes = <<>>
        /\ run.evictWrites = 0
        /\ ~run.error
        /\ pc # "crashed"
        /\ PastCountShort => need_count = MIN_ACCOUNTS
        /\ run.spawned => TOTAL_ACCOUNTS = MIN_ACCOUNTS
        /\ pc = "sleep" => run.registerCalls = 1

C11_Witness ==
    /\ pc = "sleep" /\ run.spawned
    /\ run.fileAtStart.exists /\ ~json_parses(run.fileAtStart.text)
    /\ \E i \in 1..Len(run.fileAtStart.text) : run.fileAtStart.text[i].k = "obj"
    /\ TOTAL_ACCOUNTS = MaxFloor

\* ---------------------------------------------------------------- C12
\* C12: eviction is idempotent: deleting the collected dead ids from the
\* snapshot a second time changes nothing, and the list an eviction wrote is a
\* fixed point of deleting the same ids again.
C12_IdempotentEviction ==
    (run.started /\ pc = "check" /\ idx > Len(accounts)
        => delete_all(invalid_ids, delete_all(invalid_ids, run.snapshot))
             = delete_all(invalid_ids, run.snapshot))
    /\ (run.evictWrites > 0
        => /\ delete_all(invalid_ids, run.written) = run.written
           /\ run.written = delete_all(invalid_ids, run.snapshot))

C12_Witness ==
    /\ run.evictWrites = 1 /\ ~run.evictFailed
    /\ Len(run.snapshot) = 2 /\ Len(run.written) = 0
    /\ run.snapshot[1].id = run.snapshot[2].id
    /\ Len(invalid_ids) = 1

\* ---------------------------------------------------------------- C13
RECURSIVE SurvivorsFrom(_, _, _)
SurvivorsFrom(i, snapshot, outcomes) ==
    IF i > Len(snapshot) THEN <<>>
    ELSE IF ProbeClass(outcomes[i]) = "Dead"
         THEN SurvivorsFrom(i + 1, snapshot, outcomes)
         ELSE <<snapshot[i]>> \o SurvivorsFrom(i + 1, snapshot, outcomes)

\* the accounts of the snapshot that were not classified Dead, in order
Survivors == SurvivorsFrom(1, run.snapshot, run.outcomes)

\* C13: when at least one account was classified Dead, one write replaces the
\* store by exactly the survivors: the snapshot without the Dead accounts, so
\* the store holds |snapshot| - |dead| records, whatever the ids are.
C13_EvictionPersistsSurvivors ==
    (Checked /\ pc \in {"count", "register", "relay", "sleep"} /\ ~run.error
        /\ ~NoneDead) =>
        /\ run.evictWrites = 1
        /\ run.written = Survivors
        /\ Len(run.written) = NonDeadCount

\* ---------------------------------------------------------------- C14
Max(x, y) == IF x >= y THEN x ELSE y

\* the deficit of a run whose probes are complete
Deficit == Max(0, MIN_ACCOUNTS - NonDeadCount)

\* C14: once the probes are done the deficit is max(0, floor - survivors);
\* register_accounts is called exactly when the deficit is positive, at most
\* once in the run, with the deficit as its argument, and the script it
\* starts gets the deficit as TOTAL_ACCOUNTS.
C14_DeficitAndInvocation ==
    /\ run.registerCalls <= 1
    /\ (Checked /\ PastCountShort) => (Deficit > 0 /\ need_count = Deficit)
    /\ run.registerCalls = 1 => (Checked /\ Deficit > 0)
    /\ run.spawned => (run.registerCalls = 1 /\ TOTAL_ACCOUNTS = Deficit)
    /\ RunReturned => run.registerCalls = (IF Deficit > 0 THEN 1 ELSE 0)

C14_Witness ==
    /\ RunReturned /\ run.spawned
    /\ Len(run.snapshot) = 2 /\ NonDeadCount = 1
    /\ MIN_ACCOUNTS = 2 /\ TOTAL_ACCOUNTS = 1

\* ---------------------------------------------------------------- C15
\* an attempt of the retry loop has ended in failure
AttemptFailed == op.kind = "attempt" /\ ~op.ok

\* C15: after an attempt that fails, the store is as it was before the
\* attempt: nothing the attempt created is in it and every credential that
\* was in it is still there, unchanged.
C15_FailedAttemptLeavesStore ==
    AttemptFailed => load_accounts(file) = load_accounts(op.before)

\* ---------------------------------------------------------------- C16
\* C16: the call of register_accounts(k) that started the script returns only
\* when the script's success counter equals k.
C16_RetryUntilTarget ==
    (pc = "sleep" /\ run.spawned) => success = TOTAL_ACCOUNTS

\* ---------------------------------------------------------------- C17
\* the five fields save_config requires are present in a record
FullRecord(a) ==
    /\ a.id # NoId
    /\ a.csesidx # Blank /\ a.config_id # Blank
    /\ a.secure_c_ses # Blank /\ a.host_c_oses # Blank

\* C17: save_config writes a record only when id, csesidx, config_id,
\* secure_c_ses and host_c_oses are all present: with one of them missing it
\* writes nothing and reports failure, and a record it adds has all five.
C17_NoPartialRecords ==
    /\ (op.kind = "save_config" /\ ~op.complete) => (~op.saved /\ file = op.before)
    /\ (op.kind = "save_config" /\ op.saved) =>
          /\ op.complete
          /\ FullRecord(op.data)
          /\ \A i \in 1..Len(load_accounts(file)) :
                \/ load_accounts(file)[i] = op.data
                \/ \E j \in 1..Len(load_accounts(op.before)) :
                      load_accounts(op.before)[j] = load_accounts(file)[i]

C17_Witness ==
    /\ op.kind = "save_config" /\ ~op.complete /\ ~op.saved
    /\ Len(load_accounts(op.before)) = 1
    /\ file = op.before

\* ---------------------------------------------------------------- C18
\* C18: from a store whose ids are present and pairwise distinct, every store
\* a keeper run or a provisioning attempt leaves has ids that are present and
\* pairwise distinct.
C18_IdUniquenessPreserved == UniqueIds(load_accounts(file))

C18_Witness ==
    /\ op.kind = "attempt" /\ op.ok
    /\ Occurrences(load_accounts(op.before), op.email) = 1
    /\ Len(load_accounts(op.before)) = 2
    /\ Len(load_accounts(file)) = 2

\* ---------------------------------------------------------------- C19
\* C19: within a run every probe is done before the eviction write, the
\* eviction write (if one is needed) is done and has succeeded before
\* register_accounts is called, and the keeper writes nothing to the store
\* once register_accounts has been called.
C19_StepOrdering ==
    /\ run.evictWrites > 0 => Checked
    /\ run.registerCalls > 0 =>
          /\ Checked
          /\ ~run.evictFailed
          /\ run.evictWrites = (IF invalid_ids = <<>> THEN 0 ELSE 1)
          /\ file = run.fileAtRegister

C19_Witness ==
    /\ pc = "sleep" /\ run.spawned /\ child = "exited"
    /\ run.evictWrites = 1
    /\ Len(run.snapshot) = 2

====
